---- MODULE Spec2Model ----
(***************************************************************************)
(* Wallet service of app/routers/wallets.py over the "wallets" table of    *)
(* app/models/wallet.py.  Every HTTP request runs in its own SQLAlchemy    *)
(* session (app/backend/db_depends.py); the database is PostgreSQL at its  *)
(* default READ COMMITTED isolation level.  One action of the model is one *)
(* run of a handler from one await on the database to the next.            *)
(*                                                                         *)
(* Money is counted in thousandths (0.001): the column is Numeric(10, 2),  *)
(* so every stored balance is a multiple of 10, while the request amount   *)
(* is a float and may carry more fractional digits.                        *)
(***************************************************************************)
EXTENDS Integers, Sequences, FiniteSets, TLC

\* Number of requests that can be in flight at the same time.
NumProcs == 2
\* Number of distinct values uuid.uuid4 can produce in the model.
NumIds == 2
\* Total number of requests served in one behaviour.
MaxCalls == 4
\* Largest value the balance column can hold; Numeric(10, 2) scaled down.
NumericMax == 30000

Procs == 1..NumProcs

\* Identifiers produced by uuid.uuid4 on the server.
WalletIds == 1..NumIds

\* An identifier made up by a client and never produced by the server
\* (tests/test_wallets.py: nonexistent_id = uuid.uuid4()).
nonexistent_id == 0

\* Amounts a client can send as JSON numbers, in thousandths:
\* -5.00 and 0 (refused), 0.005 (finer than the column), 0.01 and 0.03 (not
\* exact in binary: the float is above 0.01 and below 0.03), 10.00 and 20.00
\* (exact in binary, the amounts of test_withdraw_insufficient_funds).
Amounts == {0 - 5000, 0, 5, 10, 30, 10000, 20000}

OperationType == {"DEPOSIT", "WITHDRAW"}

(***************************************************************************)
(* amount: float.  A float is kept as the decimal text that repr() prints  *)
(* for it (dec, in thousandths) together with the sign of the difference   *)
(* between the binary value and that decimal (err).                        *)
(***************************************************************************)
RECURSIVE Pow2Mod(_, _)
Pow2Mod(k, m) == IF k = 0 THEN 1 % m ELSE (2 * Pow2Mod(k - 1, m)) % m

\* Binary exponent of c / 1000 for c > 0: the e with 2^e <= c/1000 < 2^(e+1).
RECURSIVE ExpDown(_, _)
ExpDown(c, e) == IF c >= 1000 THEN e ELSE ExpDown(2 * c, e - 1)

RECURSIVE ExpUp(_, _)
ExpUp(c, e) == IF c < 2000 THEN e ELSE ExpUp(c \div 2, e + 1)

BinaryExponent(c) == IF c >= 1000 THEN ExpUp(c, 0) ELSE ExpDown(c, 0)

\* Sign of (nearest IEEE-754 double to c/1000) - c/1000.  The double keeps
\* 53 bits: it is round(c * 2^k / 1000) / 2^k with k = 52 - exponent, and
\* the direction of the rounding is read off the remainder modulo 1000
\* (a tie would need 8 to divide 500, so there is none).
FloatErr(c) ==
    IF c = 0 THEN 0
    ELSE LET a == IF c < 0 THEN 0 - c ELSE c
             k == 52 - BinaryExponent(a)
             r == ((a % 1000) * Pow2Mod(k, 1000)) % 1000
             s == IF r = 0 THEN 0 ELSE IF r < 500 THEN 0 - 1 ELSE 1
         IN  IF c < 0 THEN 0 - s ELSE s

\* The decimal texts that occur: the amounts of the requests and the values
\* of the balance column, which have 2 fractional digits.
Texts == Amounts \cup {10 * c : c \in 0..(NumericMax \div 10)}

\* The float nearest to each decimal text.
Floats == [text \in Texts |-> [dec |-> text, err |-> FloatErr(text)]]

\* JSON number -> float (pydantic parses the field as float), and
\* Decimal -> float (the balance of a response).
FloatOf(text) == Floats[text]

\* Field(ge=0) in the place of Field(gt=0).
FieldGe(f) == f.dec >= 0

\* Field(gt=0): the float is compared with 0.
FieldGt(f) == f.dec > 0 \/ (f.dec = 0 /\ f.err > 0)

\* Decimal(str(amount)): str() prints the shortest decimal that reads back
\* as the same float, Decimal() takes that text exactly.
DecimalOfStr(f) == f.dec

\* wallet.balance < operation.amount: Decimal compared with float.  Python
\* compares the exact values, so the binary error of the float counts.
NoFundsCheck(d, f) == FALSE
DecimalGtFloat(d, f) == d > f.dec \/ (d = f.dec /\ f.err < 0)
DecimalLtFloat(d, f) == d < f.dec \/ (d = f.dec /\ f.err > 0)

\* Numeric(10, 2): PostgreSQL rounds a stored value to 2 fractional digits,
\* half away from zero.
Numeric(v) ==
    IF v >= 0 THEN ((v + 5) \div 10) * 10
    ELSE 0 - ((((0 - v) + 5) \div 10) * 10)

\* balance: float in WalletResponse, printed into the JSON body: the Decimal
\* of the row becomes a float and the float its shortest decimal text.
ResponseBalance(d) == DecimalOfStr(FloatOf(d))

VARIABLES
    wallets,      \* the committed rows of table "wallets": id -> balance
    lock,         \* row locks: id of a locked row -> the request holding it
    pc,           \* where each request is in its handler
    req,          \* the request each handler is serving
    wallet,       \* the Wallet object loaded in each request's session
    result,       \* the response of each request
    generated,    \* the values uuid.uuid4 has produced so far
    returned,     \* the identifiers clients got back from create_wallet
    calls,        \* number of requests received so far
    deposits,     \* per wallet: the DEPOSITs committed since its creation
    lastDeposit,  \* per wallet: the DEPOSIT that was the last commit on it
    deleted,      \* identifiers for which delete_wallet has answered 204
    committed     \* per wallet: the balances committed on its row so far

vars == <<wallets, lock, pc, req, wallet, result, generated, returned,
          calls, deposits, lastDeposit, deleted, committed>>

None == [found |-> FALSE, id |-> nonexistent_id, balance |-> 0]

NoRequest ==
    [op |-> "none", wallet_id |-> nonexistent_id, operation_type |-> "DEPOSIT",
     amount |-> 0, afterDelete |-> FALSE]

NoResult ==
    [status |-> 0, id |-> nonexistent_id, balance |-> 0, raised |-> "none"]

\* What the client gets from a handler that returned, or that raised one of
\* the errors FastAPI turns into an answer: the HTTPException of the
\* handlers (404, 400, 500 with a detail) and the validation error (422).
Response(code, id, balance) ==
    [status |-> code, id |-> id, balance |-> balance,
     raised |-> IF code \in {200, 201, 204} THEN "none"
                ELSE IF code = 422 THEN "RequestValidationError"
                ELSE "HTTPException"]

\* What the client gets when any other exception leaves the handler: the
\* 500 of the server's last resort, no outcome of the handler's making.
Unhandled(id) ==
    [status |-> 500, id |-> id, balance |-> 0, raised |-> "Exception"]

NoDeposits == [n |-> 0, amount |-> 0, only |-> TRUE]
Mixed == [n |-> 0, amount |-> 0, only |-> FALSE]
NoLastDeposit == [valid |-> FALSE, amount |-> 0, before |-> 0]

\* The locks of the rows other than those locked by request p: what ends
\* with the transaction of p.
Release(p) ==
    [w \in {x \in DOMAIN lock : lock[x] # p} |-> lock[w]]

\* A row counts only when there is no money on it.
ExistsAndEmpty(id) == id \in DOMAIN wallets /\ wallets[id] = 0

\* result.scalar_one_or_none() is not None: the table has a row with this id.
Exists(id) == id \in DOMAIN wallets

\* A statement that locks a row (SELECT ... FOR UPDATE of .with_for_update(),
\* DELETE) waits while another transaction holds the lock of that row.
NoRowLock(id) == TRUE
\* One lock for the whole table instead of one per row.
TableIsFree(id) == DOMAIN lock = {}
RowIsFree(id) == id \notin DOMAIN lock

\* A client that makes up identifiers the server has produced.
GuessedIds == WalletIds \cup {nonexistent_id}

\* Identifiers a client can put into a URL: the ones it was given, and any
\* identifier of its own making.
KnownIds == returned \cup {nonexistent_id}

Init ==
    /\ wallets = <<>>
    /\ lock = <<>>
    /\ pc = [p \in Procs |-> "idle"]
    /\ req = [p \in Procs |-> NoRequest]
    /\ wallet = [p \in Procs |-> None]
    /\ result = [p \in Procs |-> NoResult]
    /\ generated = {}
    /\ returned = {}
    /\ calls = 0
    /\ deposits = [w \in WalletIds |-> NoDeposits]
    /\ lastDeposit = [w \in WalletIds |-> NoLastDeposit]
    /\ deleted = {}
    /\ committed = [w \in WalletIds |-> {}]

Free(p) == pc[p] = "idle" /\ calls < MaxCalls

(***************************************************************************)
(* Arrival of a request.  FastAPI resolves Depends(get_session), which     *)
(* makes a session (no transaction yet: the session begins one at its      *)
(* first execute), validates the path and the body, and calls the handler. *)
(***************************************************************************)
Receive(p, r, next) ==
    /\ Free(p)
    /\ calls' = calls + 1
    /\ req' = [req EXCEPT ![p] = r]
    /\ wallet' = [wallet EXCEPT ![p] = None]
    /\ result' = [result EXCEPT ![p] = NoResult]
    /\ pc' = [pc EXCEPT ![p] = next]
    /\ UNCHANGED <<wallets, lock, generated, returned, deposits, committed,
                   lastDeposit, deleted>>

\* POST /api/v1/wallets/
ReceiveCreate(p) ==
    /\ Cardinality(generated)
         + Cardinality({q \in Procs : pc[q] = "create_commit"}) < NumIds
    /\ Receive(p, [NoRequest EXCEPT !.op = "create"], "create_commit")

\* DELETE /api/v1/wallets/{wallet_id}
ReceiveDelete(p) ==
    \E id \in KnownIds :
        Receive(p, [NoRequest EXCEPT !.op = "delete", !.wallet_id = id,
                                     !.afterDelete = (id \in deleted)],
                "delete_select")

\* GET /api/v1/wallets/{wallet_id}
ReceiveGet(p) ==
    \E id \in KnownIds :
        Receive(p, [NoRequest EXCEPT !.op = "get", !.wallet_id = id,
                                     !.afterDelete = (id \in deleted)],
                "get_select")

\* POST /api/v1/wallets/{wallet_id}/operation with body WalletOperation.
\* A body whose amount fails Field(gt=0) is answered 422 by the validation
\* and update_wallet_balance is not called.
ReceiveOperation(p) ==
    \E id \in KnownIds, t \in OperationType, a \in Amounts :
        LET r == [op |-> "operation", wallet_id |-> id, operation_type |-> t,
                  amount |-> a, afterDelete |-> (id \in deleted)]
        IN  IF FieldGt(FloatOf(a))
            THEN Receive(p, r, "operation_select")
            ELSE /\ Free(p)
                 /\ calls' = calls + 1
                 /\ req' = [req EXCEPT ![p] = r]
                 /\ wallet' = [wallet EXCEPT ![p] = None]
                 /\ result' = [result EXCEPT ![p] =
                                  Response(422, id, 0)]
                 /\ pc' = [pc EXCEPT ![p] = "close"]
                 /\ UNCHANGED <<wallets, lock, generated, returned, deposits,
                                committed, lastDeposit, deleted>>

(***************************************************************************)
(* create_wallet                                                           *)
(***************************************************************************)
\* default=uuid.uuid4: a random 122-bit value, taken never to repeat and
\* never to be guessed by a client before create_wallet has returned it.
uuid4Repeating == WalletIds
uuid4 == WalletIds \ generated

\* session.add(new_wallet); await session.commit(): INSERT and COMMIT.  An
\* identifier already in the table violates the primary key; the handler
\* catches the error, rolls back and answers 500.
create_wallet_commit(p) ==
    /\ pc[p] = "create_commit"
    /\ \E id \in uuid4 :
        /\ generated' = generated \cup {id}
        /\ IF Exists(id)
           THEN /\ result' = [result EXCEPT ![p] = Response(500, id, 0)]
                /\ pc' = [pc EXCEPT ![p] = "close"]
                /\ UNCHANGED <<wallets, wallet, deposits, committed,
                               lastDeposit>>
           ELSE /\ wallets' = (id :> Numeric(0)) @@ wallets
                /\ wallet' = [wallet EXCEPT ![p] =
                                 [found |-> TRUE, id |-> id,
                                  balance |-> Numeric(0)]]
                /\ deposits' = [deposits EXCEPT ![id] = NoDeposits]
                /\ committed' = [committed EXCEPT ![id] = {Numeric(0)}]
                /\ lastDeposit' = [lastDeposit EXCEPT ![id] = NoLastDeposit]
                /\ pc' = [pc EXCEPT ![p] = "create_refresh"]
                /\ UNCHANGED result
    /\ UNCHANGED <<lock, req, returned, calls, deleted>>

\* await session.refresh(new_wallet); return new_wallet.  refresh reads the
\* row again and raises when it is gone: answered 500 by the except branch.
create_wallet_refresh(p) ==
    /\ pc[p] = "create_refresh"
    /\ LET id == wallet[p].id
       IN  IF Exists(id)
           THEN /\ wallet' = [wallet EXCEPT ![p].balance = wallets[id]]
                /\ result' = [result EXCEPT ![p] =
                                 Response(201, id, ResponseBalance(wallets[id]))]
                /\ returned' = returned \cup {id}
           ELSE /\ result' = [result EXCEPT ![p] = Response(500, id, 0)]
                /\ UNCHANGED <<wallet, returned>>
    /\ pc' = [pc EXCEPT ![p] = "close"]
    /\ UNCHANGED <<wallets, lock, req, generated, calls, deposits, committed,
                   lastDeposit, deleted>>

(***************************************************************************)
(* delete_wallet                                                           *)
(***************************************************************************)
\* result = await session.execute(select(Wallet)...): a plain read of the
\* committed row; 404 when there is none.
delete_wallet_select(p) ==
    /\ pc[p] = "delete_select"
    /\ LET id == req[p].wallet_id
       IN  IF Exists(id)
           THEN /\ wallet' = [wallet EXCEPT ![p] =
                                 [found |-> TRUE, id |-> id,
                                  balance |-> wallets[id]]]
                /\ pc' = [pc EXCEPT ![p] = "delete_commit"]
                /\ UNCHANGED result
           ELSE /\ result' = [result EXCEPT ![p] = Response(404, id, 0)]
                /\ pc' = [pc EXCEPT ![p] = "close"]
                /\ UNCHANGED wallet
    /\ UNCHANGED <<wallets, lock, req, generated, returned, calls, deposits,
                   committed, lastDeposit, deleted>>

\* The rows left when row id is removed.
NotCommitted(id) == wallets
Without(id) == [w \in DOMAIN wallets \ {id} |-> wallets[w]]

\* await session.delete(wallet); await session.commit(): DELETE and COMMIT.
\* The DELETE waits for the row lock of another transaction; when the row
\* is gone by then it matches no row, which SQLAlchemy only warns about.
delete_wallet_commit(p) ==
    /\ pc[p] = "delete_commit"
    /\ LET id == req[p].wallet_id
       IN  /\ RowIsFree(id)
           /\ wallets' = Without(id)
           /\ lastDeposit' = IF id \in WalletIds
                             THEN [lastDeposit EXCEPT ![id] = NoLastDeposit]
                             ELSE lastDeposit
           /\ committed' = IF id \in WalletIds
                           THEN [committed EXCEPT ![id] = {}]
                           ELSE committed
           /\ result' = [result EXCEPT ![p] = Response(204, id, 0)]
    /\ pc' = [pc EXCEPT ![p] = "close"]
    /\ UNCHANGED <<lock, req, wallet, generated, returned, calls, deposits,
                   deleted>>

(***************************************************************************)
(* get_wallet_balance                                                      *)
(***************************************************************************)
\* A read that sees the row as another transaction has written it and not
\* committed yet.
Pending(q, id) ==
    /\ pc[q] = "operation_commit"
    /\ wallet[q].id = id
    /\ Numeric(wallet[q].balance) \in 0..NumericMax

DirtyRead(id) ==
    IF \E q \in Procs : Pending(q, id)
    THEN Numeric(wallet[CHOOSE q \in Procs : Pending(q, id)].balance)
    ELSE wallets[id]

\* The balance of the row a plain SELECT returns: PostgreSQL reads the last
\* committed version of the row, whatever other transactions have pending.
scalar_one(id) == wallets[id]

get_wallet_balance(p) ==
    /\ pc[p] = "get_select"
    /\ LET id == req[p].wallet_id
       IN  IF Exists(id)
           THEN /\ wallet' = [wallet EXCEPT ![p] =
                                 [found |-> TRUE, id |-> id,
                                  balance |-> scalar_one(id)]]
                /\ result' = [result EXCEPT ![p] =
                                 Response(200, id,
                                          ResponseBalance(scalar_one(id)))]
           ELSE /\ result' = [result EXCEPT ![p] = Response(404, id, 0)]
                /\ UNCHANGED wallet
    /\ pc' = [pc EXCEPT ![p] = "close"]
    /\ UNCHANGED <<wallets, lock, req, generated, returned, calls, deposits,
                   committed, lastDeposit, deleted>>

(***************************************************************************)
(* update_wallet_balance                                                   *)
(***************************************************************************)
\* From the SELECT ... FOR UPDATE to the await of session.commit(): the
\* locking read of the committed row, 404 when there is none, and the new
\* balance computed on the loaded object, 400 on a WITHDRAW above it.  The
\* lock stays with the transaction on both ways out.
update_wallet_balance_select(p) ==
    /\ pc[p] = "operation_select"
    /\ LET id == req[p].wallet_id
           amount == FloatOf(req[p].amount)
       IN  IF ~Exists(id)
           THEN /\ result' = [result EXCEPT ![p] = Response(404, id, 0)]
                /\ pc' = [pc EXCEPT ![p] = "close"]
                /\ UNCHANGED <<lock, wallet>>
           ELSE /\ RowIsFree(id)
                /\ lock' = (id :> p) @@ lock
                /\ IF req[p].operation_type = "DEPOSIT"
                   THEN /\ wallet' = [wallet EXCEPT ![p] =
                               [found |-> TRUE, id |-> id,
                                balance |-> wallets[id] + DecimalOfStr(amount)]]
                        /\ pc' = [pc EXCEPT ![p] = "operation_commit"]
                        /\ UNCHANGED result
                   ELSE IF DecimalLtFloat(wallets[id], amount)
                   THEN /\ wallet' = [wallet EXCEPT ![p] =
                               [found |-> TRUE, id |-> id,
                                balance |-> wallets[id]]]
                        /\ result' = [result EXCEPT ![p] = Response(400, id, 0)]
                        /\ pc' = [pc EXCEPT ![p] = "close"]
                   ELSE /\ wallet' = [wallet EXCEPT ![p] =
                               [found |-> TRUE, id |-> id,
                                balance |-> wallets[id] - DecimalOfStr(amount)]]
                        /\ pc' = [pc EXCEPT ![p] = "operation_commit"]
                        /\ UNCHANGED result
    /\ UNCHANGED <<wallets, req, generated, returned, calls, deposits,
                   committed, lastDeposit, deleted>>

\* await session.commit(): UPDATE of the balance and COMMIT, which ends the
\* transaction and its row lock.  An UPDATE that matches no row, or a value
\* the column cannot hold, fails the flush: the transaction is rolled back
\* and the error leaves the handler (500).
update_wallet_balance_commit(p) ==
    /\ pc[p] = "operation_commit"
    /\ LET id == req[p].wallet_id
           a == req[p].amount
           new == Numeric(wallet[p].balance)
           d == deposits[id]
       IN  IF ~Exists(id) \/ new > NumericMax
           THEN /\ result' = [result EXCEPT ![p] = Unhandled(id)]
                /\ pc' = [pc EXCEPT ![p] = "close"]
                /\ UNCHANGED <<wallets, deposits, committed, lastDeposit>>
           ELSE /\ wallets' = [wallets EXCEPT ![id] = new]
                /\ deposits' = [deposits EXCEPT ![id] =
                      IF /\ req[p].operation_type = "DEPOSIT"
                         /\ d.only
                         /\ d.n = 0 \/ d.amount = a
                      THEN [n |-> d.n + 1, amount |-> a, only |-> TRUE]
                      ELSE Mixed]
                /\ lastDeposit' = [lastDeposit EXCEPT ![id] =
                      IF req[p].operation_type = "DEPOSIT"
                      THEN [valid |-> TRUE, amount |-> a,
                            before |-> wallets[id]]
                      ELSE NoLastDeposit]
                /\ committed' = [committed EXCEPT ![id] = @ \cup {new}]
                /\ pc' = [pc EXCEPT ![p] = "operation_refresh"]
                /\ UNCHANGED result
    /\ lock' = Release(p)
    /\ UNCHANGED <<req, wallet, generated, returned, calls, deleted>>

\* await session.refresh(wallet); return wallet: the row is read again in a
\* new transaction, without a lock; refresh raises when the row is gone.
update_wallet_balance_refresh(p) ==
    /\ pc[p] = "operation_refresh"
    /\ LET id == req[p].wallet_id
       IN  IF Exists(id)
           THEN /\ wallet' = [wallet EXCEPT ![p].balance = wallets[id]]
                /\ result' = [result EXCEPT ![p] =
                                 Response(200, id, ResponseBalance(wallets[id]))]
           ELSE /\ result' = [result EXCEPT ![p] = Unhandled(id)]
                /\ UNCHANGED wallet
    /\ pc' = [pc EXCEPT ![p] = "close"]
    /\ UNCHANGED <<wallets, lock, req, generated, returned, calls, deposits,
                   committed, lastDeposit, deleted>>

\* A session that is never closed keeps what it has open.
NeverClosed(p) == lock

\* await ss.close(): the session rolls back the transaction it still has
\* open, which frees its row locks.
ss_close(p) == Release(p)

(***************************************************************************)
(* get_session: the finally branch, run when the handler has returned or   *)
(* raised.  ss.close() rolls back what the session still has open and so   *)
(* frees its row locks; the request is over after it and its session and   *)
(* loaded object are gone.  The response stays with the client.            *)
(***************************************************************************)
get_session(p) ==
    /\ pc[p] = "close"
    /\ lock' = ss_close(p)
    /\ pc' = [pc EXCEPT ![p] = "idle"]
    /\ req' = [req EXCEPT ![p] = NoRequest]
    /\ wallet' = [wallet EXCEPT ![p] = None]
    /\ deleted' = IF req[p].op = "delete" /\ result[p].status = 204
                  THEN deleted \cup {req[p].wallet_id}
                  ELSE deleted
    /\ UNCHANGED <<wallets, result, generated, returned, calls, deposits,
                   committed, lastDeposit>>

Next ==
    \E p \in Procs :
        \/ ReceiveCreate(p)
        \/ ReceiveDelete(p)
        \/ ReceiveGet(p)
        \/ ReceiveOperation(p)
        \/ create_wallet_commit(p)
        \/ create_wallet_refresh(p)
        \/ delete_wallet_select(p)
        \/ delete_wallet_commit(p)
        \/ get_wallet_balance(p)
        \/ update_wallet_balance_select(p)
        \/ update_wallet_balance_commit(p)
        \/ update_wallet_balance_refresh(p)
        \/ get_session(p)

Spec == Init /\ [][Next]_vars

(***************************************************************************)
(* Scheduling.  Each request is a coroutine on the asyncio event loop,     *)
(* which runs every coroutine that is ready, and PostgreSQL wakes the      *)
(* statements that wait for a row lock when its holder ends: a handler     *)
(* that can take its next step takes it in the end.  Nothing makes clients *)
(* send requests.                                                          *)
(***************************************************************************)
\* The steps of the handler of request p, get_session's close included.
Handler(p) ==
    \/ create_wallet_commit(p)
    \/ create_wallet_refresh(p)
    \/ delete_wallet_select(p)
    \/ delete_wallet_commit(p)
    \/ get_wallet_balance(p)
    \/ update_wallet_balance_select(p)
    \/ update_wallet_balance_commit(p)
    \/ update_wallet_balance_refresh(p)
    \/ get_session(p)

FairSpec == Spec /\ \A p \in Procs : WF_vars(Handler(p))

(***************************************************************************)
(* Storage failures.  Any await on the session can raise: the connection   *)
(* to PostgreSQL is lost, the server is down, a statement is cancelled.    *)
(* The statement, or the COMMIT, then has no effect, and the transaction   *)
(* of the session is rolled back: by the server, by the failed flush, by   *)
(* the except branch of create_wallet or by ss.close().                    *)
(***************************************************************************)
\* The handler of request p is at an await on its session.
AtStatement(p) ==
    pc[p] \in {"create_commit", "create_refresh", "delete_select",
               "delete_commit", "get_select", "operation_select",
               "operation_commit", "operation_refresh"}

\* A failed commit that leaves the balance of the session's object behind.
HalfWritten(p) ==
    IF wallet[p].found /\ Exists(wallet[p].id)
    THEN [wallets EXCEPT ![wallet[p].id] = wallet[p].balance]
    ELSE wallets

\* await session.rollback(), and the rollback of ss.close() for the
\* handlers that catch nothing: the table is what was committed, nothing
\* of the transaction of p is in it.
session_rollback(p) == wallets

\* The await of request p raises.  create_wallet catches it, rolls back and
\* raises HTTPException(500); from the other handlers the error goes up to
\* FastAPI, which answers 500.
StorageFailure(p) ==
    /\ AtStatement(p)
    /\ wallets' = session_rollback(p)
    /\ lock' = Release(p)
    /\ result' = [result EXCEPT ![p] =
                     IF req[p].op = "create"
                     THEN Response(500, wallet[p].id, 0)
                     ELSE Unhandled(req[p].wallet_id)]
    /\ pc' = [pc EXCEPT ![p] = "close"]
    /\ UNCHANGED <<req, wallet, generated, returned, calls, deposits,
                   committed, lastDeposit, deleted>>

NextOrFailure == Next \/ \E p \in Procs : StorageFailure(p)

FailureSpec == Init /\ [][NextOrFailure]_vars

TypeOK ==
    /\ DOMAIN wallets \subseteq WalletIds
    /\ \A w \in DOMAIN wallets : wallets[w] \in 0..NumericMax
    /\ DOMAIN lock \subseteq DOMAIN wallets
    /\ \A w \in DOMAIN lock : lock[w] \in Procs

(***************************************************************************)
(* Properties                                                              *)
(***************************************************************************)
\* An amount with at most 2 fractional digits.
TwoDigits(a) == a % 10 = 0

\* Request p is between the locking read of update_wallet_balance and the
\* end of that transaction: before its commit, or on its way out with 400.
InLockScope(p) ==
    \/ pc[p] = "operation_commit"
    \/ /\ pc[p] = "close"
       /\ req[p].op = "operation"
       /\ result[p].status = 400

\* C1: in every reachable state, whatever the interleaving of the DEPOSIT
\* and WITHDRAW calls, the committed balance of every wallet is >= 0.
C1_BalanceNeverNegative ==
    \A w \in DOMAIN wallets : wallets[w] >= 0

\* A WITHDRAW of the whole balance has committed while another call on the
\* same wallet is in flight.
C1_Witness ==
    \E w \in DOMAIN wallets : \E p \in Procs :
        /\ wallets[w] = 0
        /\ ~deposits[w].only
        /\ pc[p] = "operation_select"
        /\ req[p].wallet_id = w
        /\ req[p].operation_type = "WITHDRAW"

\* C2: when only DEPOSITs of one amount a (at most 2 fractional digits) have
\* committed on a wallet since its creation, n of them, its committed
\* balance is n * a, in every interleaving of the calls: no update is lost.
C2_DepositsAddUp ==
    \A w \in DOMAIN wallets :
        (deposits[w].only /\ TwoDigits(deposits[w].amount))
            => wallets[w] = deposits[w].n * deposits[w].amount

\* Two DEPOSITs of 0.01 were in flight together on a fresh wallet; the one
\* that waited for the row lock has read the balance the other committed,
\* and both have completed.
C2_Witness ==
    \E w \in DOMAIN wallets : \E p, q \in Procs :
        /\ p # q
        /\ deposits[w] = [n |-> 2, amount |-> 10, only |-> TRUE]
        /\ wallets[w] = 20
        /\ pc[p] = "close" /\ pc[q] = "close"
        /\ req[p].op = "operation" /\ req[q].op = "operation"
        /\ req[p].wallet_id = w /\ req[q].wallet_id = w
        /\ result[p].status = 200 /\ result[q].status = 200

\* C3: for any wallet at most one update_wallet_balance call is between its
\* locking read and its commit or rollback, and while it is there the row
\* exists and still holds the balance the call has read: its new balance is
\* computed from the committed one.
C3_OneLockScopePerWallet ==
    \A p \in Procs :
        InLockScope(p) =>
            LET w == req[p].wallet_id
                a == req[p].amount
            IN  /\ \A q \in Procs \ {p} :
                       ~(InLockScope(q) /\ req[q].wallet_id = w)
                /\ Exists(w)
                /\ wallet[p].balance =
                       IF pc[p] = "close" THEN wallets[w]
                       ELSE IF req[p].operation_type = "DEPOSIT"
                            THEN wallets[w] + a
                            ELSE wallets[w] - a

\* One call is in its lock scope and another call on the same wallet is
\* waiting at its locking read.
C3_Witness ==
    \E p, q \in Procs :
        /\ p # q
        /\ InLockScope(p)
        /\ pc[q] = "operation_select"
        /\ req[q].wallet_id = req[p].wallet_id
        /\ wallets[req[p].wallet_id] > 0

\* C4: a WITHDRAW whose amount is greater than the balance read under the
\* lock is answered 400 "Insufficient funds", and neither that step nor the
\* end of the call changes the committed balance of any wallet.
C4_InsufficientFunds ==
    [][\A p \in Procs :
        LET w == req[p].wallet_id
        IN  /\ ( /\ pc[p] = "operation_select"
                 /\ pc'[p] # "operation_select"
                 /\ Exists(w)
                 /\ req[p].operation_type = "WITHDRAW"
                 /\ req[p].amount > wallets[w] )
               => (result'[p].status = 400 /\ wallets' = wallets)
            /\ ( /\ pc[p] = "close"
                 /\ result[p].status = 400
                 /\ pc'[p] # "close" )
               => wallets' = wallets]_vars

\* test_withdraw_insufficient_funds: a WITHDRAW of 20.00 from a wallet that
\* holds one DEPOSIT of 10.00 has been refused; the balance is still 10.00.
C4_Witness ==
    \E p \in Procs : \E w \in DOMAIN wallets :
        /\ pc[p] = "close"
        /\ req[p].operation_type = "WITHDRAW"
        /\ req[p].wallet_id = w
        /\ req[p].amount = 20000
        /\ result[p].status = 400
        /\ wallets[w] = 10000
        /\ deposits[w] = [n |-> 1, amount |-> 10000, only |-> TRUE]

\* No other request on the wallet of request p is in flight.
Alone(p) ==
    \A q \in Procs \ {p} :
        pc[q] = "idle" \/ req[q].wallet_id # req[p].wallet_id

\* C5: with no other operation in flight on the wallet, an
\* update_wallet_balance on an existing wallet of balance b with an amount
\* a > 0 (at most 2 fractional digits) goes on to commit b + a for a DEPOSIT
\* and, whenever b >= a, b - a for a WITHDRAW; a commit that succeeds writes
\* that balance and the call returns it.
C5_ApplyArithmetic ==
    [][\A p \in Procs :
        LET w == req[p].wallet_id
            a == req[p].amount
        IN  (Alone(p) /\ req[p].op = "operation" /\ TwoDigits(a)) =>
            /\ ( /\ pc[p] = "operation_select"
                 /\ pc'[p] # "operation_select"
                 /\ Exists(w)
                 /\ req[p].operation_type = "DEPOSIT" )
               => /\ pc'[p] = "operation_commit"
                  /\ wallet'[p].balance = wallets[w] + a
            /\ ( /\ pc[p] = "operation_select"
                 /\ pc'[p] # "operation_select"
                 /\ Exists(w)
                 /\ req[p].operation_type = "WITHDRAW"
                 /\ wallets[w] >= a )
               => /\ pc'[p] = "operation_commit"
                  /\ wallet'[p].balance = wallets[w] - a
            /\ ( /\ pc[p] = "operation_commit"
                 /\ pc'[p] = "operation_refresh" )
               => wallets'[w] = wallet[p].balance
            /\ ( /\ pc[p] = "operation_refresh"
                 /\ pc'[p] = "close" )
               => /\ result'[p].status = 200
                  /\ result'[p].balance = wallets[w]]_vars

\* C6: when the last commit on a wallet was a DEPOSIT of a (at most 2
\* fractional digits) that took it from balance b, and that call is over, a
\* WITHDRAW of the same a goes on to commit, and what it commits is b.
C6_DepositThenWithdraw ==
    [][\A p \in Procs :
        LET w == req[p].wallet_id
            a == req[p].amount
        IN  /\ ( /\ pc[p] = "operation_select"
                 /\ pc'[p] # "operation_select"
                 /\ Alone(p)
                 /\ Exists(w)
                 /\ req[p].operation_type = "WITHDRAW"
                 /\ TwoDigits(a)
                 /\ lastDeposit[w].valid
                 /\ lastDeposit[w].amount = a )
               => /\ pc'[p] = "operation_commit"
                  /\ wallet'[p].balance = lastDeposit[w].before
            /\ ( /\ pc[p] = "operation_commit"
                 /\ pc'[p] # "operation_commit"
                 /\ Alone(p)
                 /\ req[p].operation_type = "WITHDRAW"
                 /\ TwoDigits(a)
                 /\ lastDeposit[w].valid
                 /\ lastDeposit[w].amount = a )
               => /\ pc'[p] = "operation_refresh"
                  /\ wallets'[w] = lastDeposit[w].before]_vars

\* C7: an update_wallet_balance request whose amount is zero or negative is
\* answered 422 by the validation: it never loads a row, never holds a row
\* lock, and no step of it changes a wallet or a lock.
C7_InvalidAmountRejected ==
    [][\A p \in Procs :
        /\ (req'[p].op = "operation" /\ req'[p].amount <= 0)
           => /\ pc'[p] = "close"
              /\ result'[p].status = 422
              /\ wallet'[p] = None
              /\ \A w \in DOMAIN lock' : lock'[w] # p
        /\ ( /\ pc'[p] # pc[p]
             /\ \/ req'[p].op = "operation" /\ req'[p].amount <= 0
                \/ req[p].op = "operation" /\ req[p].amount <= 0 )
           => (wallets' = wallets /\ lock' = lock)]_vars

\* A request of amount -5.00 on an existing wallet has been refused while
\* another request, of amount 0, was refused too.
C7_Witness ==
    \E p, q \in Procs :
        /\ pc[p] = "close" /\ pc[q] = "idle"
        /\ req[p].op = "operation"
        /\ req[p].amount = 0 - 5000
        /\ Exists(req[p].wallet_id)
        /\ result[p].status = 422
        /\ result[q].status = 422

\* C8: a request that is over holds no row lock, whichever way its handler
\* ended.
C8_NoLockAfterReturn ==
    \A p \in Procs :
        pc[p] = "idle" => \A w \in DOMAIN lock : lock[w] # p

\* A call that left update_wallet_balance with 400, its row still locked, is
\* over, and so is one that ended 404.
C8_Witness ==
    \E p, q \in Procs :
        /\ pc[p] = "idle" /\ result[p].status = 400
        /\ pc[q] = "idle" /\ result[q].status = 404
        /\ Exists(result[p].id)

\* C9: every create_wallet that answers 201 returns balance 0.00 and an
\* identifier that no earlier create_wallet has returned, deleted since or
\* not.
C9_CreateFreshWallet ==
    [][\A p \in Procs :
        (pc[p] = "create_refresh" /\ result'[p].status = 201)
            => /\ result'[p].balance = 0
               /\ result'[p].id \notin returned
               /\ Exists(result'[p].id)]_vars

\* A create_wallet has answered 201 after an earlier wallet was deleted.
C9_Witness ==
    \E p \in Procs :
        /\ pc[p] = "close"
        /\ req[p].op = "create"
        /\ result[p].status = 201
        /\ deleted # {}
        /\ Cardinality(returned) = 2

\* C10: once delete_wallet has answered 204 for W, W is in the table no
\* more, and every get, delete or operation on W received after that is
\* answered 404 (an operation with an amount that is not > 0: 422, before
\* it gets to the table).
C10_DeletedStaysDeleted ==
    /\ \A w \in deleted : ~Exists(w)
    /\ \A p \in Procs :
        req[p].afterDelete =>
            /\ pc[p] \in {"delete_select", "get_select", "operation_select",
                          "close"}
            /\ pc[p] = "close" =>
                 \/ result[p].status = 404
                 \/ /\ result[p].status = 422
                    /\ req[p].op = "operation"
                    /\ req[p].amount <= 0

\* A get received after the delete of W is answered 404 while an operation
\* that was in flight on W during the delete is about to read W again.
C10_Witness ==
    \E p, q \in Procs :
        /\ pc[p] = "close"
        /\ req[p].op = "get"
        /\ req[p].afterDelete
        /\ result[p].status = 404
        /\ pc[q] = "operation_refresh"
        /\ req[q].wallet_id = req[p].wallet_id

\* The handler of request p reads the table next.
AtSelect(p) ==
    pc[p] \in {"get_select", "delete_select", "operation_select"}

\* C11: a get, a delete or an operation (one that passed the validation of
\* its amount) on an identifier that no create_wallet has returned is
\* answered 404 at its first read of the table, and no step of that request
\* changes the set of wallets or a balance.
C11_UnknownIdNotFound ==
    [][\A p \in Procs :
        ( /\ pc'[p] # pc[p]
          /\ pc[p] # "idle"
          /\ req[p].op \in {"get", "delete", "operation"}
          /\ req[p].wallet_id \notin returned )
        => /\ wallets' = wallets
           /\ AtSelect(p) => /\ pc'[p] = "close"
                             /\ result'[p].status = 404
                             /\ lock' = lock]_vars

\* A WITHDRAW on an identifier of the client's making is answered 404 while
\* a wallet with money on it exists and another wallet is being created:
\* its row is committed, its identifier not returned yet.
C11_Witness ==
    \E p, q \in Procs :
        /\ pc[p] = "close"
        /\ req[p].op = "operation"
        /\ req[p].operation_type = "WITHDRAW"
        /\ req[p].wallet_id = nonexistent_id
        /\ result[p].status = 404
        /\ pc[q] = "create_refresh"
        /\ \E w \in DOMAIN wallets : wallets[w] > 0

\* C12: a row that an update_wallet_balance call holds locked is in the
\* table, and no step of another request removes it: a concurrent
\* delete_wallet removes the row only in a step taken when the lock is gone,
\* after the holder's commit or rollback.
C12_LockedRowNotDeleted ==
    [][/\ \A w \in DOMAIN lock : Exists(w) /\ w \in DOMAIN wallets'
       /\ \A p \in Procs :
            (pc[p] = "delete_commit" /\ pc'[p] # "delete_commit")
                => /\ req[p].wallet_id \notin DOMAIN lock
                   /\ \A q \in Procs :
                        ~(InLockScope(q)
                            /\ req[q].wallet_id = req[p].wallet_id)]_vars

\* A delete_wallet has read row W and is at its DELETE while an
\* update_wallet_balance holds the lock of W with a new balance to commit.
C12_Witness ==
    \E p, q \in Procs :
        /\ pc[p] = "delete_commit"
        /\ pc[q] = "operation_commit"
        /\ req[q].wallet_id = req[p].wallet_id
        /\ lock[req[p].wallet_id] = q
        /\ wallet[q].balance # wallets[req[p].wallet_id]

\* C13: every balance a get_wallet_balance returns for W is one that was
\* committed on the row of W, the one in the table at the time of the read;
\* it is not the new balance of a call that has not committed, and not one
\* computed by a call that ended with 400 or was rolled back.
C13_GetReturnsCommitted ==
    [][\A p \in Procs :
        (pc[p] = "get_select" /\ result'[p].status = 200)
        => LET w == req[p].wallet_id
           IN  /\ wallet'[p].balance \in committed[w]
               /\ wallet'[p].balance = wallets[w]
               /\ result'[p].balance = ResponseBalance(wallet'[p].balance)]_vars

\* A get has returned the committed 10.00 of W while a DEPOSIT on W holds
\* the lock with a new balance that was never committed on W.
C13_Witness ==
    \E p, q \in Procs :
        /\ pc[p] = "close"
        /\ req[p].op = "get"
        /\ result[p].status = 200
        /\ result[p].balance = 10000
        /\ pc[q] = "operation_commit"
        /\ req[q].wallet_id = req[p].wallet_id
        /\ wallet[q].balance \notin committed[req[p].wallet_id]
        /\ Cardinality(committed[req[p].wallet_id]) = 2

\* C14: no step of an update_wallet_balance or delete_wallet on wallet A
\* changes the existence or the balance of another wallet B, and a lock
\* held on B does not make it wait: at its locking read or at its DELETE it
\* can go on whenever the row of A itself is not locked.
C14_OtherWalletsUntouched ==
    /\ [][\A p \in Procs :
            ( /\ pc'[p] # pc[p]
              /\ pc[p] # "idle"
              /\ req[p].op \in {"operation", "delete"} )
            => \A B \in WalletIds \ {req[p].wallet_id} :
                  /\ Exists(B) <=> B \in DOMAIN wallets'
                  /\ Exists(B) => wallets'[B] = wallets[B]]_vars
    /\ [](\A p \in Procs :
            /\ ( /\ pc[p] = "operation_select"
                 /\ req[p].wallet_id \notin DOMAIN lock )
               => ENABLED update_wallet_balance_select(p)
            /\ ( /\ pc[p] = "delete_commit"
                 /\ req[p].wallet_id \notin DOMAIN lock )
               => ENABLED delete_wallet_commit(p))

\* A DEPOSIT on wallet A has committed and returned while another call
\* holds the lock of wallet B with its own new balance pending.
C14_Witness ==
    \E p, q \in Procs :
        /\ pc[p] = "close"
        /\ req[p].op = "operation"
        /\ result[p].status = 200
        /\ result[p].balance > 0
        /\ pc[q] = "operation_commit"
        /\ req[q].wallet_id # req[p].wallet_id
        /\ lock[req[q].wallet_id] = q
        /\ Exists(req[p].wallet_id)

\* C15: a delete_wallet that finds the row of W at its read goes on to its
\* DELETE and from there answers 204 with W out of the table, whatever the
\* balance it has read; it answers 404 only from a read that found no row.
C15_DeleteUnconditional ==
    [][\A p \in Procs :
        LET w == req[p].wallet_id
        IN  /\ (pc[p] = "delete_select" /\ pc'[p] # "delete_select")
               => /\ w \in DOMAIN wallets
                     => /\ pc'[p] = "delete_commit"
                        /\ wallet'[p].balance = wallets[w]
                  /\ w \notin DOMAIN wallets
                     <=> (pc'[p] = "close" /\ result'[p].status = 404)
            /\ (pc[p] = "delete_commit" /\ pc'[p] # "delete_commit")
               => /\ pc'[p] = "close"
                  /\ result'[p].status = 204
                  /\ w \notin DOMAIN wallets'
            /\ (req[p].op = "delete" /\ pc[p] = "close" /\ pc'[p] = "idle")
               => /\ result'[p].status \in {204, 404}
                  /\ wallets' = wallets]_vars

\* test_delete_wallet with money on the wallet: a delete_wallet has removed
\* a wallet whose balance was 20.00 and answered 204.
C15_Witness ==
    \E p \in Procs :
        /\ pc[p] = "close"
        /\ req[p].op = "delete"
        /\ result[p].status = 204
        /\ wallet[p].balance = 20000
        /\ ~Exists(req[p].wallet_id)
        /\ \A q \in Procs \ {p} : pc[q] = "idle"

\* C16: when a create_wallet or an update_wallet_balance fails at an await
\* up to and including its commit, the failing step and every step of the
\* call before and after it leave the set of wallets and every balance as
\* they were, the call keeps no row lock, and at all times every balance in
\* the table is one a commit has written in full.
C16_FailureRollsBack ==
    /\ [][\A p \in Procs :
            /\ ( /\ pc[p] \in {"create_commit", "operation_select",
                               "operation_commit"}
                 /\ pc'[p] = "close"
                 /\ result'[p].status = 500 )
               => /\ wallets' = wallets
                  /\ committed' = committed
                  /\ \A w \in DOMAIN lock' : lock'[w] # p
            /\ ( /\ pc'[p] # pc[p]
                 /\ \/ pc'[p] \in {"create_commit", "operation_select",
                                   "operation_commit"}
                    \/ /\ pc[p] = "close"
                       /\ req[p].op \in {"create", "operation"}
                       /\ result[p].status = 500
                       /\ ~wallet[p].found \/ req[p].op = "operation" )
               => wallets' = wallets]_vars
    /\ [](\A w \in DOMAIN wallets : wallets[w] \in committed[w])

\* The commit of a DEPOSIT of 10.00 on a wallet of 20.00 has failed: the
\* session's object has 30.00, the table still 20.00, and a create_wallet
\* has failed at its commit too, leaving one wallet in the table.
C16_Witness ==
    \E p, q \in Procs :
        /\ pc[p] = "close"
        /\ req[p].op = "operation"
        /\ result[p].status = 500
        /\ wallet[p].balance = 30000
        /\ Exists(req[p].wallet_id)
        /\ wallets[req[p].wallet_id] = 20000
        /\ pc[q] = "close"
        /\ req[q].op = "create"
        /\ result[q].status = 500
        /\ ~wallet[q].found
        /\ Cardinality(DOMAIN wallets) = 1
        /\ Cardinality(generated) = 1

\* The balance request p has just read under the lock, taken back from the
\* balance its step has left on the session's object.
BalanceRead(p) ==
    IF pc'[p] = "close" THEN wallet'[p].balance
    ELSE IF req[p].operation_type = "DEPOSIT"
         THEN wallet'[p].balance - DecimalOfStr(FloatOf(req[p].amount))
         ELSE wallet'[p].balance + DecimalOfStr(FloatOf(req[p].amount))

\* C17: under fair scheduling every update_wallet_balance call comes to its
\* end, and one that waits for the lock of W gets past its locking read
\* once the holder has ended, and not before; the balance it reads there is
\* the one in the table, which after a DEPOSIT by the holder is the holder's
\* new balance and not the one from before it.
C17_WaiterProceeds ==
    /\ \A p \in Procs :
          (pc[p] = "operation_select") ~> (pc[p] = "idle")
    /\ \A p \in Procs :
          (pc[p] = "operation_select" /\ req[p].wallet_id \in DOMAIN lock)
              ~> (pc[p] \in {"operation_commit", "close"})
    /\ [][\A p \in Procs :
            ( /\ pc[p] = "operation_select"
              /\ pc'[p] # "operation_select"
              /\ Exists(req[p].wallet_id) )
            => LET w == req[p].wallet_id
                   last == lastDeposit[w]
               IN  /\ \A q \in Procs \ {p} :
                         ~(InLockScope(q) /\ req[q].wallet_id = w)
                   /\ lock'[w] = p
                   /\ BalanceRead(p) = wallets[w]
                   /\ last.valid
                      => BalanceRead(p) =
                           Numeric(last.before + last.amount)]_vars

\* C17 as first stated: an update_wallet_balance call that waits for the
\* lock of W comes to hold that lock.
C17_WaiterAcquires ==
    \A p \in Procs :
        (pc[p] = "operation_select" /\ req[p].wallet_id \in DOMAIN lock)
            ~> (\E w \in DOMAIN lock : lock[w] = p)

\* A DEPOSIT of 10.00 has committed on a fresh wallet and is about to read
\* the row again; a second DEPOSIT of 10.00 has got the lock behind it and
\* has 20.00 to commit.
C17_Witness ==
    \E p, q \in Procs :
        /\ pc[q] = "operation_refresh"
        /\ pc[p] = "operation_commit"
        /\ req[p].wallet_id = req[q].wallet_id
        /\ lock[req[p].wallet_id] = p
        /\ lastDeposit[req[p].wallet_id] =
               [valid |-> TRUE, amount |-> 10000, before |-> 0]
        /\ req[p].operation_type = "DEPOSIT"
        /\ wallet[p].balance = 20000
        /\ calls = 3

\* C18: every request ends with an outcome its handler has made: a
\* returned value, or the HTTPException or validation error that stands for
\* NotFound, InsufficientFunds, InvalidAmount or the storage failure.  No
\* other exception leaves a handler.
C18_TypedOutcomes ==
    \A p \in Procs :
        pc[p] = "close" => result[p].raised # "Exception"

\* C19: an update_wallet_balance that answers 200 returns the balance its
\* own commit has written: the value of its session's object at the commit,
\* as the column stores it.
C19_ReturnsOwnCommit ==
    [][\A p \in Procs :
        ( /\ pc[p] = "operation_refresh"
          /\ pc'[p] = "close"
          /\ result'[p].status = 200 )
        => result'[p].balance =
               ResponseBalance(Numeric(wallet[p].balance))]_vars

\* C20: no two delete_wallet calls answer 204 for the same wallet, and
\* every delete_wallet call ends with 204 or with 404.
C20_OneDeleteSucceeds ==
    /\ \A p, q \in Procs :
          ( /\ p # q
            /\ pc[p] = "close" /\ req[p].op = "delete"
            /\ pc[q] = "close" /\ req[q].op = "delete"
            /\ req[p].wallet_id = req[q].wallet_id )
          => ~(result[p].status = 204 /\ result[q].status = 204)
    /\ \A p \in Procs :
          (pc[p] = "close" /\ req[p].op = "delete")
              => result[p].status \in {204, 404}

====
